---- MODULE Spec2Model ----
(***************************************************************************)
(* Model of kulshankomkastkiller.py: the Modem and InternetMonitor         *)
(* reachability records, the RaspberryPi relay and the polling loop of     *)
(* MonitoringStateMachine.run.                                             *)
(*                                                                         *)
(* Time is an integer number of clock units; a datetime is a number of     *)
(* units since the process started and a timedelta is a (possibly          *)
(* negative) number of units.  None is modelled by -1, which no datetime   *)
(* ever equals.                                                            *)
(***************************************************************************)
EXTENDS Integers, FiniteSets, Sequences, TLC

\* ------------------------------------------------------------------ bounds
\* Resolution of the clock: units per second (2 = half seconds).
UnitsPerSecond == 2
\* Iterations of the polling loop explored by Spec.
MaxTicks == 7
\* Method calls explored by SpecCalls.
MaxCalls == 5

\* --------------------------------------------------------------- constants
\* timedelta.seconds is the seconds component of a normalised timedelta:
\* 0 <= seconds < 3600*24.
SecondsPerDay == 86400
\* main(): Modem(..., minimum_power_off_duration=timedelta(seconds=5),
\*               boot_duration=timedelta(seconds=120))
PowerOffSeconds == 5
BootSeconds == 120
\* main(): InternetMonitor(..., acceptable_no_comms_seconds=60, ...)
AcceptableNoCommsSeconds == 60
\* main(): InternetMonitor("google.com", "facebook.com", ...)
MainHosts == {"google.com", "facebook.com"}
\* The settings main() passes to the constructors.
MainConfig ==
    [remote_hosts |-> MainHosts,
     power_off_seconds |-> PowerOffSeconds,
     boot_seconds |-> BootSeconds,
     acceptable_no_comms_seconds |-> AcceptableNoCommsSeconds]

None == -1

VARIABLES
    config,            \* the constructor arguments the objects keep
    now,               \* the wall clock, datetime.now()
    ticks,             \* loop iterations / calls made so far (bounded)
    state,             \* MonitoringStateMachine._state
    prev_state,        \* MonitoringStateMachine._prev_state
    modem,             \* Modem: _up_since, _down_since, _last_reboot
    internet,          \* InternetMonitor: _last_curl, _up_since, _down_since
    relay,             \* RaspberryPi._relay_output.value
    pc,                \* "loop", or "power_off" inside power_cycle_modem
    sampled,           \* which records have taken a sample so far
    restored,          \* when the relay was last switched off (None: never)
    ev                 \* what the last step did (probe, result, verdict, log)

vars == <<config, now, ticks, state, prev_state, modem, internet, relay, pc,
          sampled, restored, ev>>

\* InternetMonitor._remote_hosts
remote_hosts == config.remote_hosts
\* InternetMonitor._acceptable_no_comms_seconds
acceptable_no_comms_seconds == config.acceptable_no_comms_seconds

\* timedelta(seconds=s)
timedelta(s) == s * UnitsPerSecond
\* timedelta.seconds: the days component is dropped and the sub-second part
\* is truncated (it lives in .microseconds).
seconds(td) == (td % (SecondsPerDay * UnitsPerSecond)) \div UnitsPerSecond

\* Modem._power_off_duration
minimum_power_off_duration == timedelta(config.power_off_seconds)
\* Modem._boot_duration
boot_duration == timedelta(config.boot_seconds)

\* States of MonitoringStateMachine.
MONITORING_MODEM == "monitoring_modem"
MONITORING_INTERNET == "monitoring_internet"
REBOOT_MODEM == "reboot_modem"
HALT == "halt"

\* ------------------------------------------------------------------ inputs
\* How long time.sleep(1) plus the time to reach the next statement took:
\* one second, a minute, one clock unit over a minute, and a day.
SleepDeltas ==
    { timedelta(1),
      timedelta(AcceptableNoCommsSeconds),
      timedelta(AcceptableNoCommsSeconds) + 1,
      timedelta(SecondsPerDay) }
\* How long the ping of the modem's LAN address took: no longer than the
\* clock resolves (a slower ping is a longer SleepDelta of the next tick).
PingLatencies == {0}
\* How long the curls of one is_up call took, between "now" and the later
\* datetime.now() calls: the curls of the hosts take a second.
CurlLatencies == {timedelta(1)}
\* One curl result per host.
CurlResults == [remote_hosts -> BOOLEAN]

\* -------------------------------------------------------------------- Modem
\* Modem.__init__
Modem_init(t) == [up_since |-> None, down_since |-> None, last_reboot |-> t]

\* Modem.notify_reboot
Modem_notify_reboot(m, t) ==
    [up_since |-> None, down_since |-> t, last_reboot |-> t]

\* Variant: the cooldown still holds at exactly boot_duration (<= for <).
is_currently_booting_inclusive(m, t) == (t - m.last_reboot) <= boot_duration
\* Variant: the cooldown is measured against the power-off duration.
is_currently_booting_power_off(m, t) == (t - m.last_reboot) < minimum_power_off_duration
\* Modem.is_currently_booting, called at time t
is_currently_booting(m, t) == (t - m.last_reboot) < boot_duration

\* Variant: every reachable sample stamps up_since anew.
is_responsive_restamps(m, alive, t) ==
    IF ~alive
    THEN [m EXCEPT !.up_since = None, !.down_since = t]
    ELSE [m EXCEPT !.up_since = t, !.down_since = None]
\* Variant: a failed ping does not clear up_since.
is_responsive_keeps_up_since(m, alive, t) ==
    IF ~alive
    THEN [m EXCEPT !.down_since = t]
    ELSE IF m.up_since = None
         THEN [m EXCEPT !.up_since = t, !.down_since = None]
         ELSE m
\* Modem.is_responsive: the record after a ping that returned `alive` at t
is_responsive(m, alive, t) ==
    IF ~alive
    THEN [m EXCEPT !.up_since = None, !.down_since = t]
    ELSE IF m.up_since = None
         THEN [m EXCEPT !.up_since = t, !.down_since = None]
         ELSE m

\* --------------------------------------------------------- InternetMonitor
\* InternetMonitor.__init__
InternetMonitor_init(t) == [last_curl |-> t, up_since |-> None, down_since |-> None]

\* InternetMonitor.notify_reboot
InternetMonitor_notify_reboot(i, t) == [i EXCEPT !.last_curl = t]

\* Variant: all(curl_results) for any(curl_results).
good_curl_all_hosts(curl_results) == \A h \in DOMAIN curl_results : curl_results[h]
\* good_curl = any(curl_results)
good_curl(curl_results) == \E h \in DOMAIN curl_results : curl_results[h]

\* self._last_curl after "if good_curl: self._last_curl = datetime.now()"
last_curl_after(i, curl_results, t1) ==
    IF good_curl(curl_results) THEN t1 ELSE i.last_curl

\* time_since_last_curl = now - self._last_curl, now taken before the curls
time_since_last_curl(i, curl_results, t0, t1) ==
    t0 - last_curl_after(i, curl_results, t1)

\* Variant: down already at the threshold (>= for >).
judged_down_at_threshold(i, curl_results, t0, t1) ==
    ~good_curl(curl_results)
    /\ seconds(time_since_last_curl(i, curl_results, t0, t1)) >= acceptable_no_comms_seconds
\* not(good_curl) and (time_since_last_curl.seconds > acceptable_no_comms_seconds)
judged_down(i, curl_results, t0, t1) ==
    ~good_curl(curl_results)
    /\ seconds(time_since_last_curl(i, curl_results, t0, t1)) > acceptable_no_comms_seconds

\* Variant: coming up does not clear down_since.
is_up_keeps_down_since(i, curl_results, t0, t1) ==
    LET lc == last_curl_after(i, curl_results, t1) IN
    IF judged_down(i, curl_results, t0, t1)
    THEN [last_curl |-> lc, up_since |-> None, down_since |-> t1]
    ELSE IF i.up_since = None
         THEN [last_curl |-> lc, up_since |-> t1, down_since |-> i.down_since]
         ELSE [i EXCEPT !.last_curl = lc]
\* InternetMonitor.is_up: the record after a call that started at t0 and whose
\* curls returned curl_results by t1
is_up(i, curl_results, t0, t1) ==
    LET lc == last_curl_after(i, curl_results, t1) IN
    IF judged_down(i, curl_results, t0, t1)
    THEN [last_curl |-> lc, up_since |-> None, down_since |-> t1]
    ELSE IF i.up_since = None
         THEN [last_curl |-> lc, up_since |-> t1, down_since |-> None]
         ELSE [i EXCEPT !.last_curl = lc]

\* "return self._up_since is not None", for either record
verdict(r) == r.up_since # None

\* --------------------------------------------------------------- observation
NoResults == [h \in remote_hosts |-> FALSE]
\* kind: which branch ran; at: the time the branch read the clock first;
\* alive / results: the probe's answer; since: time_since_last_curl;
\* was_down: the probed record had _down_since set before the call;
\* ret: the value the method returned; warning: a log record at WARNING was
\* emitted.
Event(kind, at, alive, results, since, was_down, ret, warning) ==
    [kind |-> kind, at |-> at, alive |-> alive, results |-> results,
     since |-> since, was_down |-> was_down, ret |-> ret, warning |-> warning]
NoEvent == Event("none", 0, FALSE, NoResults, 0, FALSE, FALSE, FALSE)

Init ==
    /\ config = MainConfig
    /\ restored = None
    /\ now = 0
    /\ ticks = 0
    /\ state = MONITORING_MODEM
    /\ prev_state = "None"
    /\ modem = Modem_init(0)
    /\ internet = InternetMonitor_init(0)
    /\ relay = FALSE
    /\ pc = "loop"
    /\ sampled = {}
    /\ ev = NoEvent

\* ------------------------------------------------- MonitoringStateMachine.run
\* The head of one loop iteration: the HALT test, time.sleep(1) and the
\* "Entered state" bookkeeping.
LoopHead ==
    /\ pc = "loop"
    /\ state # HALT
    /\ ticks < MaxTicks
    /\ ticks' = ticks + 1
    /\ prev_state' = state
    /\ UNCHANGED config

\* MONITORING_MODEM while the modem is booting: wait.
MonitorModemBooting(d) ==
    /\ LoopHead
    /\ state = MONITORING_MODEM
    /\ is_currently_booting(modem, now + d)
    /\ now' = now + d
    /\ ev' = Event("booting", now + d, FALSE, NoResults, 0, FALSE, TRUE, FALSE)
    /\ UNCHANGED <<state, modem, internet, relay, pc, sampled, restored>>

\* Variant: the modem's answer is ignored.
next_state_modem_always_internet(up) == MONITORING_INTERNET
\* MONITORING_MODEM, the branch on self._modem.is_responsive()
next_state_modem(up) == IF up THEN MONITORING_INTERNET ELSE MONITORING_MODEM

\* MONITORING_MODEM once the cooldown is over: ping the modem.
MonitorModemProbe(d, alive, lat) ==
    /\ LoopHead
    /\ state = MONITORING_MODEM
    /\ ~is_currently_booting(modem, now + d)
    /\ LET t1 == now + d + lat
           m == is_responsive(modem, alive, t1)
       IN /\ modem' = m
          /\ now' = t1
          /\ state' = next_state_modem(verdict(m))
          /\ ev' = Event("modem_probe", now + d, alive, NoResults, 0,
                         modem.down_since # None, verdict(m), ~verdict(m))
    /\ sampled' = sampled \cup {"modem"}
    /\ UNCHANGED <<internet, relay, pc, restored>>

\* Variant: the internet verdict is ignored.
next_state_internet_always_reboot(up) == REBOOT_MODEM
\* Variant: a down verdict goes back to watching the modem, no power cycle.
next_state_internet_skips_reboot(up) ==
    IF up THEN MONITORING_INTERNET ELSE MONITORING_MODEM
\* MONITORING_INTERNET, the branch on self._internet.is_up()
next_state_internet(up) == IF up THEN MONITORING_INTERNET ELSE REBOOT_MODEM

\* MONITORING_INTERNET: curl every host.
MonitorInternet(d, results, lat) ==
    /\ LoopHead
    /\ state = MONITORING_INTERNET
    /\ LET t0 == now + d
           t1 == now + d + lat
           i == is_up(internet, results, t0, t1)
       IN /\ internet' = i
          /\ now' = t1
          /\ state' = next_state_internet(verdict(i))
          /\ ev' = Event("internet_probe", t0, FALSE, results,
                         time_since_last_curl(internet, results, t0, t1),
                         internet.down_since # None, verdict(i), FALSE)
    /\ sampled' = sampled \cup {"internet"}
    /\ UNCHANGED <<modem, relay, pc, restored>>

\* Variant: off() leaves the output active.
relay_output_off_stuck == TRUE
\* fakeio.OutputDevice.on / off: the value of the output afterwards
relay_output_on == TRUE
relay_output_off == FALSE

\* REBOOT_MODEM, first half of RaspberryPi.power_cycle_modem: notify both
\* records and switch the relay on (modem power cut).
RebootModemPowerOff(d) ==
    /\ LoopHead
    /\ state = REBOOT_MODEM
    /\ now' = now + d
    /\ modem' = Modem_notify_reboot(modem, now + d)
    /\ internet' = InternetMonitor_notify_reboot(internet, now + d)
    /\ relay' = relay_output_on
    /\ pc' = "power_off"
    /\ ev' = Event("relay_on", now + d, FALSE, NoResults, 0, FALSE, FALSE, FALSE)
    /\ UNCHANGED <<state, sampled, restored>>

\* Second half: _sleep(power_off_duration), relay off, back to
\* MONITORING_MODEM.
RebootModemPowerOn ==
    /\ pc = "power_off"
    /\ now' = now + timedelta(seconds(minimum_power_off_duration))
    /\ relay' = relay_output_off
    /\ restored' = now'
    /\ pc' = "loop"
    /\ state' = MONITORING_MODEM
    /\ ev' = Event("relay_off", now', FALSE, NoResults, 0, FALSE, FALSE, FALSE)
    /\ UNCHANGED <<config, ticks, prev_state, modem, internet, sampled>>

Next ==
    \/ \E d \in SleepDeltas : MonitorModemBooting(d)
    \/ \E d \in SleepDeltas, alive \in BOOLEAN, lat \in PingLatencies :
          MonitorModemProbe(d, alive, lat)
    \/ \E d \in SleepDeltas, results \in CurlResults, lat \in CurlLatencies :
          MonitorInternet(d, results, lat)
    \/ \E d \in SleepDeltas : RebootModemPowerOff(d)
    \/ RebootModemPowerOn

Spec == Init /\ [][Next]_vars

\* --------------------------------------------------------- a faulty relay
\* self._relay_output.on() raises (gpiozero can; fakeio cannot).  Both records
\* were notified before the call; nothing in power_cycle_modem or run catches
\* the exception, and main logs it and raises again: the process ends.
RelayOnFault(d) ==
    /\ LoopHead
    /\ state = REBOOT_MODEM
    /\ now' = now + d
    /\ modem' = Modem_notify_reboot(modem, now + d)
    /\ internet' = InternetMonitor_notify_reboot(internet, now + d)
    /\ pc' = "terminated"
    /\ ev' = Event("relay_fault", now + d, FALSE, NoResults, 0, FALSE, FALSE, FALSE)
    /\ UNCHANGED <<state, relay, sampled, restored>>

\* self._relay_output.off() raises after the sleep: the output is left in
\* either position and the process ends as above.
RelayOffFault ==
    /\ pc = "power_off"
    /\ now' = now + timedelta(seconds(minimum_power_off_duration))
    /\ relay' \in BOOLEAN
    /\ pc' = "terminated"
    /\ ev' = Event("relay_fault", now', FALSE, NoResults, 0, FALSE, FALSE, FALSE)
    /\ UNCHANGED <<config, ticks, prev_state, state, modem, internet, sampled,
                   restored>>

NextFault ==
    \/ Next
    \/ \E d \in SleepDeltas : RelayOnFault(d)
    \/ RelayOffFault

SpecFault == Init /\ [][NextFault]_vars

\* ------------------------------------------------------ other configurations
\* Settings main() could be edited to pass: no internet host, or a duration
\* of zero.
InvalidConfigs ==
    { [MainConfig EXCEPT !.remote_hosts = {}],
      [MainConfig EXCEPT !.boot_seconds = 0],
      [MainConfig EXCEPT !.power_off_seconds = 0] }

\* main() with such settings: the constructors store what they are given and
\* run() starts.
InitConfig ==
    /\ config \in InvalidConfigs
    /\ restored = None
    /\ now = 0
    /\ ticks = 0
    /\ state = MONITORING_MODEM
    /\ prev_state = "None"
    /\ modem = Modem_init(0)
    /\ internet = InternetMonitor_init(0)
    /\ relay = FALSE
    /\ pc = "loop"
    /\ sampled = {}
    /\ ev = NoEvent

SpecConfig == InitConfig /\ [][Next]_vars

\* Settings with other positive durations: a longer power-off (half of and
\* all of the boot duration) and a boot duration shorter than the grace
\* window.
ValidConfigs ==
    { MainConfig,
      [MainConfig EXCEPT !.power_off_seconds = BootSeconds \div 2],
      [MainConfig EXCEPT !.power_off_seconds = BootSeconds],
      [MainConfig EXCEPT !.boot_seconds = AcceptableNoCommsSeconds \div 2] }

InitDurations ==
    /\ config \in ValidConfigs
    /\ restored = None
    /\ now = 0
    /\ ticks = 0
    /\ state = MONITORING_MODEM
    /\ prev_state = "None"
    /\ modem = Modem_init(0)
    /\ internet = InternetMonitor_init(0)
    /\ relay = FALSE
    /\ pc = "loop"
    /\ sampled = {}
    /\ ev = NoEvent

SpecDurations == InitDurations /\ [][Next]_vars

\* ------------------------------------------------------- the records alone
\* The methods of one record (pc names its class) called in any order, each
\* d after the previous call returned.  The two records share no state, so
\* a caller of both sees on each record what a caller of one sees.
InitCalls ==
    /\ config = MainConfig
    /\ restored = None
    /\ now = 0
    /\ ticks = 0
    /\ state = MONITORING_MODEM
    /\ prev_state = "None"
    /\ modem = Modem_init(0)
    /\ internet = InternetMonitor_init(0)
    /\ relay = FALSE
    /\ pc \in {"Modem", "InternetMonitor"}
    /\ sampled = {}
    /\ ev = NoEvent

CallHead ==
    /\ ticks < MaxCalls
    /\ ticks' = ticks + 1
    /\ UNCHANGED <<config, state, prev_state, relay, pc, restored>>

Call_is_currently_booting(d) ==
    /\ pc = "Modem"
    /\ CallHead
    /\ now' = now + d
    /\ ev' = Event("is_currently_booting", now + d, FALSE, NoResults, 0,
                   FALSE, is_currently_booting(modem, now + d), FALSE)
    /\ UNCHANGED <<modem, internet, sampled>>

Call_is_responsive(d, alive, lat) ==
    /\ pc = "Modem"
    /\ CallHead
    /\ now' = now + d + lat
    /\ modem' = is_responsive(modem, alive, now + d + lat)
    /\ ev' = Event("is_responsive", now + d, alive, NoResults, 0,
                   modem.down_since # None, verdict(modem'), FALSE)
    /\ sampled' = sampled \cup {"modem"}
    /\ UNCHANGED internet

Call_Modem_notify_reboot(d) ==
    /\ pc = "Modem"
    /\ CallHead
    /\ now' = now + d
    /\ modem' = Modem_notify_reboot(modem, now + d)
    /\ ev' = Event("Modem_notify_reboot", now + d, FALSE, NoResults, 0, FALSE, FALSE, FALSE)
    /\ UNCHANGED <<internet, sampled>>

Call_is_up(d, results, lat) ==
    /\ pc = "InternetMonitor"
    /\ CallHead
    /\ now' = now + d + lat
    /\ internet' = is_up(internet, results, now + d, now + d + lat)
    /\ ev' = Event("is_up", now + d, FALSE, results,
                   time_since_last_curl(internet, results, now + d, now + d + lat),
                   internet.down_since # None, verdict(internet'), FALSE)
    /\ sampled' = sampled \cup {"internet"}
    /\ UNCHANGED modem

Call_InternetMonitor_notify_reboot(d) ==
    /\ pc = "InternetMonitor"
    /\ CallHead
    /\ now' = now + d
    /\ internet' = InternetMonitor_notify_reboot(internet, now + d)
    /\ ev' = Event("InternetMonitor_notify_reboot", now + d, FALSE, NoResults, 0,
                   FALSE, FALSE, FALSE)
    /\ UNCHANGED <<modem, sampled>>

NextCalls ==
    \/ \E d \in SleepDeltas : Call_is_currently_booting(d)
    \/ \E d \in SleepDeltas, alive \in BOOLEAN, lat \in PingLatencies :
          Call_is_responsive(d, alive, lat)
    \/ \E d \in SleepDeltas : Call_Modem_notify_reboot(d)
    \/ \E d \in SleepDeltas, results \in CurlResults, lat \in CurlLatencies :
          Call_is_up(d, results, lat)
    \/ \E d \in SleepDeltas : Call_InternetMonitor_notify_reboot(d)

SpecCalls == InitCalls /\ [][NextCalls]_vars

\* ===================================================================== claims
\* At least one configured host answered.
SomeHostAnswered(results) == \E h \in DOMAIN results : results[h]
\* acceptable_no_comms_duration on the clock
grace == timedelta(acceptable_no_comms_seconds)
\* A step of the loop taken in the given state (not the second half of a
\* power cycle).
TickIn(s) == pc = "loop" /\ state = s

\* C1: from MONITORING_INTERNET every tick is one internet probe with the
\* relay left disengaged, and a tick whose sample is good (some host answered)
\* leaves the state MONITORING_INTERNET; so while every sample is good the
\* state stays MONITORING_INTERNET and no power cycle starts.
C1_GoodSamplesKeepMonitoringInternet ==
    [][ TickIn(MONITORING_INTERNET) =>
          /\ relay = FALSE
          /\ ev'.kind = "internet_probe"
          /\ relay' = FALSE
          /\ pc' = "loop"
          /\ modem' = modem
          /\ state' \in {MONITORING_INTERNET, REBOOT_MODEM}
          /\ (SomeHostAnswered(ev'.results) => state' = MONITORING_INTERNET)
      ]_vars

\* C1 witness: a later good tick of an up-streak that began on an earlier tick.
C1_Witness ==
    /\ state = MONITORING_INTERNET
    /\ ev.kind = "internet_probe"
    /\ SomeHostAnswered(ev.results)
    /\ internet.up_since # None
    /\ internet.up_since < ev.at
    /\ relay = FALSE

\* C2: a bad internet sample taken more than the grace window after the last
\* success moves MONITORING_INTERNET to REBOOT_MODEM; the REBOOT_MODEM tick
\* engages the relay and stamps last_reboot, and the step after it ends
\* power_off_duration later with the relay disengaged and the state
\* MONITORING_MODEM.
C2_BadBeyondGraceReboots ==
    [][ /\ ( /\ TickIn(MONITORING_INTERNET)
             /\ ~SomeHostAnswered(ev'.results)
             /\ ev'.since > grace )
           => state' = REBOOT_MODEM
        /\ TickIn(REBOOT_MODEM)
           => /\ relay = FALSE /\ relay' = TRUE
              /\ pc' = "power_off"
              /\ modem'.last_reboot = now'
        /\ pc = "power_off"
           => /\ relay = TRUE /\ relay' = FALSE
              /\ now' = now + minimum_power_off_duration
              /\ state' = MONITORING_MODEM
              /\ pc' = "loop"
              /\ modem' = modem
      ]_vars

\* C2, the part the code keeps: REBOOT_MODEM always leads to MONITORING_MODEM
\* through one relay engage and one disengage power_off_duration later, with
\* last_reboot the time of the engage; and a down verdict always moves
\* MONITORING_INTERNET to REBOOT_MODEM.
C2_RebootLeadsToMonitoringModem ==
    [][ /\ ( TickIn(MONITORING_INTERNET) /\ ~ev'.ret ) => state' = REBOOT_MODEM
        /\ TickIn(REBOOT_MODEM)
           => /\ relay = FALSE /\ relay' = TRUE
              /\ pc' = "power_off"
              /\ modem'.last_reboot = now'
        /\ pc = "power_off"
           => /\ relay = TRUE /\ relay' = FALSE
              /\ now' = now + minimum_power_off_duration
              /\ state' = MONITORING_MODEM
              /\ pc' = "loop"
              /\ modem' = modem
      ]_vars

\* C3: a MONITORING_MODEM tick that reads the clock less than boot_duration
\* after last_reboot issues no probe, changes no field of either record,
\* emits no warning and leaves the state MONITORING_MODEM.
C3_CooldownTickChangesNothing ==
    [][ ( /\ TickIn(MONITORING_MODEM)
          /\ ev'.at - modem.last_reboot < boot_duration )
        => /\ ev'.kind = "booting"
           /\ modem' = modem
           /\ internet' = internet
           /\ sampled' = sampled
           /\ ~ev'.warning
           /\ relay' = relay
           /\ state' = MONITORING_MODEM
      ]_vars

\* C3 witness: a cooldown tick after a power cycle.
C3_Witness ==
    /\ state = MONITORING_MODEM
    /\ ev.kind = "booting"
    /\ modem.last_reboot > 0
    /\ now - modem.last_reboot < boot_duration

\* C4: from MONITORING_MODEM every tick is a cooldown wait or a modem probe,
\* never a power cycle; outside the cooldown it is a probe; an unreachable
\* probe leaves the state MONITORING_MODEM and emits the warning, and only a
\* reachable probe leaves MONITORING_MODEM (for MONITORING_INTERNET).
C4_UnresponsiveModemIsNeverPowerCycled ==
    [][ TickIn(MONITORING_MODEM) =>
          /\ relay = FALSE /\ relay' = FALSE
          /\ pc' = "loop"
          /\ ev'.kind \in {"booting", "modem_probe"}
          /\ (ev'.at - modem.last_reboot >= boot_duration => ev'.kind = "modem_probe")
          /\ (ev'.kind = "booting" => state' = MONITORING_MODEM /\ ~ev'.warning)
          /\ (ev'.kind = "modem_probe" /\ ~ev'.alive
                => state' = MONITORING_MODEM /\ ev'.warning)
          /\ (state' # MONITORING_MODEM
                => state' = MONITORING_INTERNET /\ ev'.kind = "modem_probe" /\ ev'.alive)
      ]_vars

\* C4 witness: a second unreachable probe in a row, warned, still
\* MONITORING_MODEM.
C4_Witness ==
    /\ state = MONITORING_MODEM
    /\ ev.kind = "modem_probe"
    /\ ~ev.alive
    /\ ev.was_down
    /\ ev.warning
    /\ relay = FALSE

\* up_since and down_since of a record are never both set; exactly one is set
\* once the record has taken a sample; both unset only before the first.
RecordConsistent(r, has_sampled) ==
    /\ ~(r.up_since # None /\ r.down_since # None)
    /\ (has_sampled => (r.up_since # None) # (r.down_since # None))
    /\ (r.up_since = None /\ r.down_since = None => ~has_sampled)

\* C5: after any sequence of calls the Modem record and the InternetMonitor
\* record each have up_since and down_since never both set, exactly one set
\* after the first sample, and both unset only before the first sample.
C5_ExactlyOneOfUpDown ==
    /\ RecordConsistent(modem, "modem" \in sampled)
    /\ RecordConsistent(internet, "internet" \in sampled)

\* C5 witness: the internet record comes up again after it had been judged
\* down.
C5_Witness ==
    /\ ev.kind = "is_up"
    /\ ev.was_down
    /\ internet.up_since # None
    /\ internet.down_since = None

\* C6: Modem.is_responsive returns true exactly when the ping of that call
\* answered.
C6_VerdictIsThisProbe ==
    ev.kind = "is_responsive" => (ev.ret <=> ev.alive)

\* C6 witness: an unreachable ping right after the record was up returns
\* false.
C6_Witness ==
    /\ ev.kind = "is_responsive"
    /\ ~ev.alive
    /\ ~ev.was_down
    /\ "modem" \in sampled
    /\ ticks >= 2
    /\ ~ev.ret

\* C7: InternetMonitor.is_up returns down only on a bad sample taken more
\* than acceptable_no_comms_duration after the last success.
C7_DownOnlyBeyondGrace ==
    (ev.kind = "is_up" /\ ~ev.ret)
        => (~SomeHostAnswered(ev.results) /\ ev.since > grace)

\* C7 witness: a down verdict.
C7_Witness ==
    /\ ev.kind = "is_up"
    /\ ~ev.ret
    /\ internet.down_since # None

\* C8: every InternetMonitor.is_up call whose sample is bad and whose time
\* since the last success exceeds acceptable_no_comms_duration returns down.
C8_BadBeyondGraceIsDown ==
    (ev.kind = "is_up" /\ ~SomeHostAnswered(ev.results) /\ ev.since > grace)
        => ~ev.ret

\* C9: an InternetMonitor.is_up call in which at least one host answered
\* returns up.
C9_OneHostSuffices ==
    (ev.kind = "is_up" /\ SomeHostAnswered(ev.results)) => ev.ret

\* C9 witness: one host fails, the other answers, and the record had been
\* judged down before the call.
C9_Witness ==
    /\ ev.kind = "is_up"
    /\ \E h \in remote_hosts : ev.results[h]
    /\ \E h \in remote_hosts : ~ev.results[h]
    /\ ev.was_down
    /\ ev.ret

\* C10: Modem.is_currently_booting returns true when called in
\* [last_reboot, last_reboot + boot_duration) and false from
\* last_reboot + boot_duration on.
C10_BootingWindow ==
    ev.kind = "is_currently_booting" =>
        /\ ( modem.last_reboot <= ev.at /\ ev.at < modem.last_reboot + boot_duration
               => ev.ret )
        /\ ( ev.at >= modem.last_reboot + boot_duration => ~ev.ret )

\* C10 witness: a call exactly boot_duration after a notify_reboot returns
\* false.
C10_Witness ==
    /\ ev.kind = "is_currently_booting"
    /\ modem.last_reboot > 0
    /\ ev.at = modem.last_reboot + boot_duration
    /\ ~ev.ret

\* C11: after a power cycle, once the cooldown is over, a reachable modem
\* probe moves MONITORING_MODEM to MONITORING_INTERNET, the first internet
\* sample there, if bad, moves on to REBOOT_MODEM, and the REBOOT_MODEM tick
\* power-cycles again, whatever the number of power cycles before.
C11_RebootsAgainAfterCooldown ==
    [][ /\ ( TickIn(MONITORING_MODEM) /\ ev'.kind = "modem_probe" /\ ev'.alive )
           => state' = MONITORING_INTERNET
        /\ ( /\ TickIn(MONITORING_INTERNET)
             /\ restored # None
             /\ ev.kind = "modem_probe"
             /\ ~SomeHostAnswered(ev'.results) )
           => state' = REBOOT_MODEM
        /\ TickIn(REBOOT_MODEM) => (pc' = "power_off" /\ relay')
      ]_vars

\* C11, the part the code keeps: there is no count of power cycles; whenever
\* is_up returns down the next tick power-cycles, also after earlier cycles.
C11_DownVerdictAlwaysPowerCycles ==
    [][ /\ ( TickIn(MONITORING_MODEM) /\ ev'.kind = "modem_probe" /\ ev'.alive )
           => state' = MONITORING_INTERNET
        /\ ( TickIn(MONITORING_INTERNET) /\ ~ev'.ret ) => state' = REBOOT_MODEM
        /\ TickIn(REBOOT_MODEM) => (pc' = "power_off" /\ relay')
      ]_vars

\* C11: a second power cycle has begun.
C11_SecondPowerCycle == pc = "power_off" /\ restored # None

\* C12: the state is always MONITORING_MODEM, MONITORING_INTERNET or
\* REBOOT_MODEM, never HALT, and every change of state is
\* MONITORING_MODEM -> MONITORING_INTERNET, MONITORING_INTERNET ->
\* REBOOT_MODEM or REBOOT_MODEM -> MONITORING_MODEM.
C12_HaltNeverReached ==
    [][ /\ state \in {MONITORING_MODEM, MONITORING_INTERNET, REBOOT_MODEM}
        /\ state' \in {MONITORING_MODEM, MONITORING_INTERNET, REBOOT_MODEM}
        /\ ( state' # state =>
               <<state, state'>> \in
                   { <<MONITORING_MODEM, MONITORING_INTERNET>>,
                     <<MONITORING_INTERNET, REBOOT_MODEM>>,
                     <<REBOOT_MODEM, MONITORING_MODEM>> } )
      ]_vars

\* C12 witness: the three changes have happened in turn; the machine is back
\* in MONITORING_MODEM after a power cycle.
C12_Witness ==
    /\ state = MONITORING_MODEM
    /\ ev.kind = "relay_off"
    /\ restored = now
    /\ "internet" \in sampled

\* C13: a relay fault during a power cycle leaves the loop running.
C13_RelayFaultKeepsLoopRunning ==
    ev.kind = "relay_fault" => pc # "terminated"

\* A configuration with no internet host or a non-positive duration.
ConfigIsInvalid ==
    \/ config.remote_hosts = {}
    \/ config.power_off_seconds <= 0
    \/ config.boot_seconds <= 0
    \/ config.acceptable_no_comms_seconds <= 0

\* C14: under an invalid configuration the loop never executes a tick and
\* the relay is never engaged.
C14_InvalidConfigNeverTicks ==
    ConfigIsInvalid => (ticks = 0 /\ ev.kind = "none" /\ ~relay)

\* C15: after a power cycle the modem is probed no sooner than boot_duration
\* after the relay was switched off.
C15_ProbeWaitsBootDurationAfterRestore ==
    (ev.kind = "modem_probe" /\ restored # None)
        => ev.at - restored >= boot_duration

\* C16: a power cycle that follows another is notified at least boot_duration
\* and more than acceptable_no_comms_duration after the one before.
C16_PowerCyclesAreSeparated ==
    [][ ( TickIn(REBOOT_MODEM) /\ restored # None /\ pc' = "power_off" )
        => /\ modem'.last_reboot - modem.last_reboot >= boot_duration
           /\ modem'.last_reboot - modem.last_reboot > grace
      ]_vars

\* C16 witness: a second power cycle has been notified, less than a day
\* after the first.
C16_Witness ==
    /\ pc = "power_off"
    /\ restored # None
    /\ ev.kind = "relay_on"
    /\ modem.last_reboot - restored < timedelta(SecondsPerDay)

\* C17: the relay is disengaged whenever a tick starts; it is engaged only by
\* the REBOOT_MODEM step; once engaged, the next thing that happens is the
\* disengage, power_off_duration later and within the same tick; no probe is
\* made with the relay engaged.
C17_RelayEngagedOnlyWhileRebooting ==
    [][ /\ (pc = "loop" => ~relay)
        /\ (pc' = "loop" => ~relay')
        /\ ( (relay' /\ ~relay) => (TickIn(REBOOT_MODEM) /\ pc' = "power_off") )
        /\ ( relay => /\ pc = "power_off"
                      /\ ~relay'
                      /\ ev'.kind = "relay_off"
                      /\ now' = now + minimum_power_off_duration
                      /\ ticks' = ticks )
        /\ ( ev'.kind \in {"modem_probe", "internet_probe"} => (~relay /\ ~relay') )
      ]_vars

\* C17 witness: the relay has been engaged and disengaged again.
C17_Witness ==
    /\ ev.kind = "relay_off"
    /\ ~relay
    /\ pc = "loop"
    /\ restored = modem.last_reboot + minimum_power_off_duration

\* C18: Modem.is_responsive sets up_since on the first reachable sample of a
\* run of reachable samples and leaves the record unchanged on every later
\* one; up_since is reset only by an unreachable sample or by notify_reboot;
\* after notify_reboot the record is up_since = None with down_since and
\* last_reboot set to the reboot time.
C18_UpSinceMarksStartOfStreak ==
    [][ /\ ( ev'.kind = "is_responsive" /\ ev'.alive /\ modem.up_since # None )
           => modem' = modem
        /\ ( ev'.kind = "is_responsive" /\ ev'.alive /\ modem.up_since = None )
           => modem'.up_since = now'
        /\ ( modem.up_since # None /\ modem'.up_since # modem.up_since )
           => /\ modem'.up_since = None
              /\ \/ ev'.kind = "Modem_notify_reboot"
                 \/ ev'.kind = "is_responsive" /\ ~ev'.alive
        /\ ev'.kind = "Modem_notify_reboot"
           => modem' = [up_since |-> None, down_since |-> now', last_reboot |-> now']
      ]_vars

\* C18 witness: a later reachable sample of a run has left up_since at the
\* time of the run's first sample, after an earlier notify_reboot.
C18_Witness ==
    /\ ev.kind = "is_responsive"
    /\ ev.alive
    /\ modem.up_since # None
    /\ modem.up_since < ev.at
    /\ modem.last_reboot > 0

\* C19: at the start of every tick state = MONITORING_MODEM exactly when the
\* modem's up_since is None; the modem is probed (or its cooldown checked)
\* only in MONITORING_MODEM, the internet only in MONITORING_INTERNET, the
\* relay engaged only in REBOOT_MODEM; a tick makes one probe or one power
\* cycle, and changes the state at most once.
C19_StateAgreesWithModemRecord ==
    [][ /\ (pc = "loop" => (state = MONITORING_MODEM <=> modem.up_since = None))
        /\ (pc' = "loop" => (state' = MONITORING_MODEM <=> modem'.up_since = None))
        /\ (ev'.kind \in {"booting", "modem_probe"} => TickIn(MONITORING_MODEM))
        /\ (ev'.kind = "internet_probe" => TickIn(MONITORING_INTERNET))
        /\ (ev'.kind = "relay_on" => TickIn(REBOOT_MODEM))
        /\ (ticks' = ticks => (ev.kind = "relay_on" /\ ev'.kind = "relay_off"))
        /\ (state' # state => prev_state' = state)
        /\ (modem' # modem => ev'.kind \in {"modem_probe", "relay_on"})
      ]_vars

\* C19 witness: a tick starts in REBOOT_MODEM with the modem record up, after
\* the internet was judged down.
C19_Witness ==
    /\ TickIn(REBOOT_MODEM)
    /\ modem.up_since # None
    /\ ev.kind = "internet_probe"
    /\ ~ev.ret

====
